---- MODULE Spec2Model ----
(***************************************************************************)
(* AES performance benchmark for OP-TEE: the Trusted Application          *)
(* (ta/ta_aes_perf.c) driven through its entry points (Spec), the host    *)
(* program's benchmark run (host/aes-perf.c, SpecHost) and its statistics  *)
(* accumulator (SpecStats).                                                *)
(***************************************************************************)
EXTENDS Integers, Sequences, FiniteSets, TLC

\* Number of distinct non-null operation handle values the TEE heap can return.
MaxHandles == 2
\* Number of transient objects the TEE heap can hold before allocation fails.
MaxObjects == 2
\* Largest inner loop count (-l) a command carries.
MaxLoops == 2

\* Cap of the count of consecutive successful Process commands.
MaxStreak == 2
\* Largest number of measurements (-n) of a benchmark run.
MaxN == 11
\* Largest number of samples fed to the accumulator on its own.
MaxSamples == 3

\* TEE_HANDLE_NULL / NULL, the initial value of crypto_op.
NULL == 0

Handles == 1..MaxHandles

VARIABLES
    crypto_op, \* static TEE_OperationHandle crypto_op
    ops,       \* TEE heap: allocated operations, handle -> attributes
    objs,      \* TEE heap: number of allocated transient objects
    inst,      \* TA instance: "none", "alive" or "dead" (panicked)
    sess,      \* client session: "closed" or "open"
    msg,       \* the command in flight to the TA (NoRequest: none)
    streak,    \* successful Process commands in a row so far (up to MaxStreak)
    last,      \* the last entry point call: request, reply and TEE API calls made
    host,      \* the host program: its globals, run_test's locals, its position
    stats,     \* struct statistics stats
    fed        \* the samples passed to update_stats so far

\* The host program's variables.
hvars == <<host, stats, fed>>

\* The TA's variables.
tavars == <<crypto_op, ops, objs, inst, sess, msg, streak, last>>

vars == <<tavars, hvars>>

-----------------------------------------------------------------------------
(* Parameter types.  TEE(C)_PARAM_TYPES packs four 4-bit types into one    *)
(* word; the packing is injective, so a packed word is kept as the 4-tuple *)
(* of the type names and compared as a whole, as the code compares words.  *)

TEE_PARAM_TYPES(t0, t1, t2, t3) == <<t0, t1, t2, t3>>

TEEC_PARAM_TYPES(p0, p1, p2, p3) == <<p0, p1, p2, p3>>

\* The parameter type the TA sees for a parameter type the client sets.
TEEParamType(t) ==
    CASE t = "TEEC_NONE" -> "TEE_PARAM_TYPE_NONE"
      [] t = "TEEC_VALUE_INPUT" -> "TEE_PARAM_TYPE_VALUE_INPUT"
      [] t = "TEEC_MEMREF_PARTIAL_INPUT" -> "TEE_PARAM_TYPE_MEMREF_INPUT"
      [] t = "TEEC_MEMREF_PARTIAL_OUTPUT" -> "TEE_PARAM_TYPE_MEMREF_OUTPUT"
      [] t = "TEEC_MEMREF_PARTIAL_INOUT" -> "TEE_PARAM_TYPE_MEMREF_INOUT"

\* TEEC_InvokeCommand: the nParamTypes word the TA receives for op.paramTypes.
TEEC_InvokeCommand_types(paramTypes) ==
    TEE_PARAM_TYPES(TEEParamType(paramTypes[1]), TEEParamType(paramTypes[2]),
                    TEEParamType(paramTypes[3]), TEEParamType(paramTypes[4]))

\* host prepare_key(): op.paramTypes
prepare_key_paramTypes ==
    TEEC_PARAM_TYPES("TEEC_VALUE_INPUT", "TEEC_VALUE_INPUT",
                     "TEEC_NONE", "TEEC_NONE")

\* host run_test(): op.paramTypes
run_test_paramTypes ==
    TEEC_PARAM_TYPES("TEEC_MEMREF_PARTIAL_INOUT", "TEEC_MEMREF_PARTIAL_INOUT",
                     "TEEC_VALUE_INPUT", "TEEC_NONE")

\* cmd_prepare_key(): exp_param_types
prepare_key_exp_param_types ==
    TEE_PARAM_TYPES("TEE_PARAM_TYPE_VALUE_INPUT", "TEE_PARAM_TYPE_NONE",
                    "TEE_PARAM_TYPE_NONE", "TEE_PARAM_TYPE_NONE")

\* cmd_process(): exp_param_types
process_exp_param_types ==
    TEE_PARAM_TYPES("TEE_PARAM_TYPE_MEMREF_INPUT", "TEE_PARAM_TYPE_MEMREF_OUTPUT",
                    "TEE_PARAM_TYPE_NONE", "TEE_PARAM_TYPE_NONE")

\* The nParamTypes words a command may arrive with.
ParamShapes ==
    { TEEC_InvokeCommand_types(prepare_key_paramTypes),
      TEEC_InvokeCommand_types(run_test_paramTypes),
      prepare_key_exp_param_types,
      process_exp_param_types,
      TEE_PARAM_TYPES("TEE_PARAM_TYPE_NONE", "TEE_PARAM_TYPE_NONE",
                      "TEE_PARAM_TYPE_NONE", "TEE_PARAM_TYPE_NONE") }

\* Values the host places in the PrepareKey parameters (-d, -k, -m).
Directions == {0, 1}
KeySizes == {128, 192, 256}
Modes == {"TA_AES_ECB", "TA_AES_CBC", "TA_AES_CTR", "TA_AES_XTS"}

\* The steps of cmd_prepare_key that return a TEE_Result.
PrepareSteps == {"TEE_AllocateOperation", "TEE_AllocateTransientObject",
                 "TEE_PopulateTransientObject", "TEE_SetOperationKey"}

-----------------------------------------------------------------------------
(* Statistics (Knuth/Welford).  The doubles of struct statistics are kept  *)
(* as exact fractions <<numerator, denominator>> in lowest terms with a    *)
(* positive denominator.                                                   *)

RECURSIVE GCD(_, _)
GCD(a, b) == IF b = 0 THEN a ELSE GCD(b, a % b)

Abs(a) == IF a < 0 THEN -a ELSE a

Frac(a, b) ==
    LET g == GCD(Abs(a), Abs(b))
        sgn == IF b < 0 THEN -1 ELSE 1
    IN  <<sgn * (a \div g), sgn * (b \div g)>>

FromInt(a) == <<a, 1>>
FAdd(p, q) == Frac(p[1] * q[2] + q[1] * p[2], p[2] * q[2])
FSub(p, q) == Frac(p[1] * q[2] - q[1] * p[2], p[2] * q[2])
FMul(p, q) == Frac(p[1] * q[1], p[2] * q[2])
FDivInt(p, k) == Frac(p[1], p[2] * k)
FLess(p, q) == p[1] * q[2] < q[1] * p[2]
FLeq(p, q) == p[1] * q[2] <= q[1] * p[2]

\* struct statistics stats = {0, };
ZeroStats ==
    [n |-> 0, m |-> FromInt(0), M2 |-> FromInt(0), min |-> FromInt(0),
     max |-> FromInt(0), initialized |-> 0]

\* update_stats with a fault: the second factor uses the mean before its update.
update_stats_old_mean(s, t) ==
    LET x == FromInt(t)
        delta == FSub(x, s.m)
        n1 == s.n + 1
        m1 == FAdd(s.m, FDivInt(delta, n1))
        M21 == FAdd(s.M2, FMul(delta, delta))
    IN  [n |-> n1, m |-> m1, M2 |-> M21,
         min |-> IF s.initialized = 0 \/ FLess(x, s.min) THEN x ELSE s.min,
         max |-> IF s.initialized = 0 \/ FLess(s.max, x) THEN x ELSE s.max,
         initialized |-> 1]

\* update_stats with a fault: min and max are not set from the first sample.
update_stats_no_first(s, t) ==
    LET x == FromInt(t)
        delta == FSub(x, s.m)
        n1 == s.n + 1
        m1 == FAdd(s.m, FDivInt(delta, n1))
        M21 == FAdd(s.M2, FMul(delta, FSub(x, m1)))
    IN  [n |-> n1, m |-> m1, M2 |-> M21,
         min |-> IF FLess(x, s.min) THEN x ELSE s.min,
         max |-> IF FLess(s.max, x) THEN x ELSE s.max,
         initialized |-> 1]

\* update_stats(&stats, t)
update_stats(s, t) ==
    LET x == FromInt(t)
        delta == FSub(x, s.m)
        n1 == s.n + 1
        m1 == FAdd(s.m, FDivInt(delta, n1))
        M21 == FAdd(s.M2, FMul(delta, FSub(x, m1)))
    IN  IF s.initialized = 0
        THEN [n |-> n1, m |-> m1, M2 |-> M21, min |-> x, max |-> x,
              initialized |-> 1]
        ELSE [n |-> n1, m |-> m1, M2 |-> M21,
              min |-> IF FLess(x, s.min) THEN x ELSE s.min,
              max |-> IF FLess(s.max, x) THEN x ELSE s.max,
              initialized |-> s.initialized]

\* The value of sqrt(q), kept as its radicand.
Sqrt(q) == [nan |-> FALSE, radicand |-> q]

NAN == [nan |-> TRUE, radicand |-> FromInt(0)]

\* stddev with a fault: a single sample is enough.
stddev_one_sample(s) == IF s.n < 1 THEN NAN ELSE Sqrt(FDivInt(s.M2, s.n))

\* stddev(&stats)
stddev(s) == IF s.n < 2 THEN NAN ELSE Sqrt(FDivInt(s.M2, s.n))

-----------------------------------------------------------------------------
(* The host program.  host.pc is its position; host.n, host.n0, host.l,    *)
(* host.random_in, host.in_place are the variables of those names;         *)
(* in_shm/out_shm record whether the buffer was allocated, how often it    *)
(* was released and what it holds.  host.issued counts the TEE client      *)
(* calls that return a result, host.process the Process commands among     *)
(* them, host.failed names the call that failed and host.failed_at its     *)
(* number; host.printed is set by the summary line; host.status is the     *)
(* exit status.                                                             *)

\* Durations run_test_once can measure, in ns.
Durations == {10, 20}

\* Results of a TEE client call.
TEEC_Results == {"TEEC_SUCCESS", "TEEC_ERROR_GENERIC"}

\* Samples fed to the accumulator on its own.
Samples == {0, 10, 20, 30, 100}

NoShm == [allocated |-> FALSE, releases |-> 0, content |-> "unset"]

HostNotStarted == [pc |-> "off"]

\* main after the command line is parsed
HostStart(n, l, random_in, in_place) ==
    [pc |-> "open_ta", n |-> n, n0 |-> n, l |-> l, random_in |-> random_in,
     in_place |-> in_place, in_shm |-> NoShm, out_shm |-> NoShm,
     issued |-> 0, process |-> 0, failed |-> "none", failed_at |-> 0,
     printed |-> FALSE, status |-> "running"]

Exited(h) == h.pc \in {"exit", "killed", "done"}

\* A TEE client call that returns res.
TEEC_Call(h, what, res) ==
    [h EXCEPT !.issued = @ + 1,
              !.failed = IF res # "TEEC_SUCCESS" THEN what ELSE @,
              !.failed_at = IF res # "TEEC_SUCCESS" THEN h.issued + 1 ELSE @]

\* errx: exit(1)
errx(h) == [h EXCEPT !.pc = "exit", !.status = 1]

\* check_res with a fault: the result is not looked at.
check_res_ignored(h, res) == h

\* check_res(res, errmsg)
check_res(h, res) == IF res # "TEEC_SUCCESS" THEN errx(h) ELSE h

\* open_ta()
open_ta(h, res_ctx, res_sess) ==
    LET h1 == check_res(TEEC_Call(h, "TEEC_InitializeContext", res_ctx), res_ctx)
        h2 == check_res(TEEC_Call(h1, "TEEC_OpenSession", res_sess), res_sess)
    IN  IF Exited(h1) THEN h1 ELSE h2

\* prepare_key()
prepare_key(h, res) ==
    check_res(TEEC_Call(h, "TA_AES_PERF_CMD_PREPARE_KEY", res), res)

\* TEEC_AllocateSharedMemory(&ctx, shm)
TEEC_AllocateSharedMemory(shm, res) ==
    IF res = "TEEC_SUCCESS" THEN [shm EXCEPT !.allocated = TRUE] ELSE shm

\* alloc_shm(sz)
alloc_shm(h, res_in, res_out) ==
    LET h1 == check_res(
                  [TEEC_Call(h, "TEEC_AllocateSharedMemory", res_in)
                      EXCEPT !.in_shm = TEEC_AllocateSharedMemory(@, res_in)],
                  res_in)
        h2 == check_res(
                  [TEEC_Call(h1, "TEEC_AllocateSharedMemory", res_out)
                      EXCEPT !.out_shm = TEEC_AllocateSharedMemory(@, res_out)],
                  res_out)
    IN  IF Exited(h1) THEN h1
        ELSE IF ~h.in_place THEN h2
        ELSE h1

\* TEEC_ReleaseSharedMemory(shm)
TEEC_ReleaseSharedMemory(shm) == [shm EXCEPT !.releases = @ + 1]

\* free_shm()
free_shm(h) ==
    [h EXCEPT !.in_shm = TEEC_ReleaseSharedMemory(@),
              !.out_shm = TEEC_ReleaseSharedMemory(@)]

\* run_test up to its loop with a fault: the input buffer is not zero-filled.
run_test_setup_no_memset(h, res_in, res_out) ==
    LET h1 == alloc_shm(h, res_in, res_out)
    IN  IF Exited(h1) THEN h1 ELSE [h1 EXCEPT !.pc = "loop"]

\* run_test up to its loop: alloc_shm, memset
run_test_setup(h, res_in, res_out) ==
    LET h1 == alloc_shm(h, res_in, res_out)
        h2 == IF ~h1.random_in THEN [h1 EXCEPT !.in_shm.content = "zero"]
              ELSE h1
    IN  IF Exited(h1) THEN h1 ELSE [h2 EXCEPT !.pc = "loop"]

\* read_random(in, size)
read_random(h) == [h EXCEPT !.in_shm.content = "random"]

\* run_test_once up to the call of TEEC_InvokeCommand
run_test_once_call(h) ==
    LET h1 == IF h.random_in THEN read_random(h) ELSE h
    IN  [h1 EXCEPT !.pc = "invoke", !.process = @ + 1]

\* What the cipher step makes of a buffer's content.
Cipher(content) == "ciphertext"

\* What a successful Process command does to the buffers of params[0] and
\* params[1]: cmd_process reads in and writes out, which is in_shm in place.
ProcessBuffers(h) ==
    IF h.in_place
    THEN [h EXCEPT !.in_shm.content = Cipher(h.in_shm.content)]
    ELSE [h EXCEPT !.out_shm.content = Cipher(h.in_shm.content)]

\* run_test_once from the return of TEEC_InvokeCommand
run_test_once_return(h, res) ==
    LET h1 == TEEC_Call(h, "TA_AES_PERF_CMD_PROCESS", res)
        h2 == IF res = "TEEC_SUCCESS" THEN ProcessBuffers(h1) ELSE h1
    IN  check_res(h2, res)

\* The end of run_test (summary line, free_shm) and of main (return 0).
run_test_end(h) ==
    [free_shm([h EXCEPT !.printed = TRUE]) EXCEPT !.pc = "done", !.status = 0]

\* n % (n0/10) in run_test's loop.  With n0 < 10 it divides by zero, which is
\* undefined: div0 chooses between a trap (SIGFPE) and going on.
progress_mark(h, div0) ==
    IF h.n0 \div 10 = 0 /\ div0 = "trap"
    THEN [h EXCEPT !.pc = "killed", !.status = "SIGFPE"]
    ELSE [h EXCEPT !.pc = "loop"]

-----------------------------------------------------------------------------
(* The TA's memory while an entry point runs: m.crypto_op, the TEE heap    *)
(* (m.ops, m.objs), the TEE API calls made so far (m.calls), the result of *)
(* the last call or the value returned (m.res), the place the handler      *)
(* returned from (m.at), and whether the TA panicked (m.dead).              *)

Enter(c, o, n) ==
    [crypto_op |-> c, ops |-> o, objs |-> n, calls |-> <<>>,
     res |-> "TEE_SUCCESS", at |-> "entry", dead |-> FALSE]

Call(m, f, h) == [m EXCEPT !.calls = Append(@, <<f, h>>)]

Return(m, r, where) == [m EXCEPT !.res = r, !.at = where]

\* TEE_Panic: the TA instance is killed; the client gets TEE_ERROR_TARGET_DEAD.
TEE_Panic(m, where) ==
    [m EXCEPT !.dead = TRUE, !.res = "TEE_ERROR_TARGET_DEAD", !.at = where]

Dangling(c, o) == c # NULL /\ c \notin DOMAIN o

RemoveOp(o, h) == [x \in (DOMAIN o) \ {h} |-> o[x]]

\* TEE_FreeOperation(h).  Freeing a handle that is not allocated is undefined:
\* ub chooses between a panic and no visible effect.
TEE_FreeOperation(m, h, ub) ==
    LET m1 == Call(m, "TEE_FreeOperation", h)
    IN  IF h \in DOMAIN m.ops
        THEN [m1 EXCEPT !.ops = RemoveOp(m.ops, h)]
        ELSE IF ub = "panic" THEN TEE_Panic(m1, "TEE_FreeOperation") ELSE m1

\* TEE_AllocateOperation(&crypto_op, algorithm, mode, maxKeySize).  The heap
\* returns a handle that is not allocated (hint when it is free; none left: out
\* of memory).  On failure the value left in the out parameter is unspecified:
\* stale keeps the previous value, else NULL.
TEE_AllocateOperation(m, algorithm, mode, maxKeySize, fails, hint, stale) ==
    LET free == Handles \ DOMAIN m.ops
        h == IF hint \in free THEN hint
             ELSE IF free = {} THEN NULL ELSE CHOOSE x \in free : TRUE
        m1 == Call(m, "TEE_AllocateOperation", h)
    IN  IF fails \/ h = NULL
        THEN [m1 EXCEPT !.res = "TEE_ERROR_OUT_OF_MEMORY",
                        !.crypto_op = IF stale THEN m.crypto_op ELSE NULL]
        ELSE [m1 EXCEPT !.res = "TEE_SUCCESS",
                        !.crypto_op = h,
                        !.ops = (h :> [algorithm |-> algorithm, mode |-> mode,
                                       maxKeySize |-> maxKeySize,
                                       keySet |-> FALSE]) @@ m.ops]

\* TEE_AllocateTransientObject(TEE_TYPE_AES, 128, &hkey)
TEE_AllocateTransientObject(m, fails) ==
    LET m1 == Call(m, "TEE_AllocateTransientObject", NULL)
    IN  IF fails \/ m.objs >= MaxObjects
        THEN [m1 EXCEPT !.res = "TEE_ERROR_OUT_OF_MEMORY"]
        ELSE [m1 EXCEPT !.res = "TEE_SUCCESS", !.objs = @ + 1]

\* TEE_PopulateTransientObject(hkey, &attr, 1)
TEE_PopulateTransientObject(m, fails) ==
    LET m1 == Call(m, "TEE_PopulateTransientObject", NULL)
    IN  [m1 EXCEPT !.res = IF fails THEN "TEE_ERROR_BAD_PARAMETERS"
                           ELSE "TEE_SUCCESS"]

\* TEE_SetOperationKey(crypto_op, hkey)
TEE_SetOperationKey(m, h, fails) ==
    LET m1 == Call(m, "TEE_SetOperationKey", h)
    IN  IF fails
        THEN [m1 EXCEPT !.res = "TEE_ERROR_CORRUPT_OBJECT"]
        ELSE [m1 EXCEPT !.res = "TEE_SUCCESS", !.ops[h].keySet = TRUE]

\* TEE_FreeTransientObject(hkey)
TEE_FreeTransientObject(m) ==
    [Call(m, "TEE_FreeTransientObject", NULL) EXCEPT !.objs = @ - 1]

\* TEE_CipherInit(crypto_op, NULL, 0).  A null handle and an operation without
\* a key panic; the use of a freed handle is undefined: ub chooses between a
\* panic and going on as if the operation were there.
TEE_CipherInit(m, h, ub) ==
    LET m1 == Call(m, "TEE_CipherInit", h)
    IN  IF h = NULL THEN TEE_Panic(m1, "TEE_CipherInit")
        ELSE IF h \notin DOMAIN m.ops
        THEN IF ub = "panic" THEN TEE_Panic(m1, "TEE_CipherInit") ELSE m1
        ELSE IF ~m.ops[h].keySet THEN TEE_Panic(m1, "TEE_CipherInit")
        ELSE m1

\* TEE_CipherDoFinal(crypto_op, in, insz, out, outsz)
TEE_CipherDoFinal(m, h, fails) ==
    LET m1 == Call(m, "TEE_CipherDoFinal", h)
    IN  [m1 EXCEPT !.res = IF fails THEN "TEE_ERROR_SHORT_BUFFER"
                           ELSE "TEE_SUCCESS"]

-----------------------------------------------------------------------------
(* The command handlers.  rq is the command as the TA receives it:          *)
(* rq.types = nParamTypes, rq.a0 = params[0].value.a,                       *)
(* rq.b0 = params[0].value.b, rq.a1 = params[1].value.a,                    *)
(* rq.a2 = params[2].value.a.  env gives the outcomes the TEE chooses:      *)
(* env.fail (the step of cmd_prepare_key that fails, or "none"), env.h,     *)
(* env.stale, env.ub, env.cipherFails.                                      *)

\* FreeCryptoOp with a fault: the operation is never freed.
FreeCryptoOp_never(m, env) == m

\* if (crypto_op) TEE_FreeOperation(crypto_op);
FreeCryptoOp(m, env) ==
    IF m.crypto_op # NULL THEN TEE_FreeOperation(m, m.crypto_op, env.ub) ELSE m

\* ProcessCipher with a fault: the operation is freed after the final step.
ProcessCipher_frees(m, rq, env) ==
    LET m1 == TEE_CipherInit(m, m.crypto_op, env.ub)
        m2 == TEE_CipherDoFinal(m1, m1.crypto_op, env.cipherFails)
        m3 == TEE_FreeOperation(m2, m2.crypto_op, env.ub)
    IN  IF m1.dead THEN m1
        ELSE IF m2.res # "TEE_SUCCESS"
        THEN Return(m2, m2.res, "TEE_CipherDoFinal")
        ELSE Return(m3, "TEE_SUCCESS", "done")

\* cmd_process after the parameter check
ProcessCipher(m, rq, env) ==
    LET m1 == TEE_CipherInit(m, m.crypto_op, env.ub)
        m2 == TEE_CipherDoFinal(m1, m1.crypto_op, env.cipherFails)
    IN  IF m1.dead THEN m1
        ELSE IF m2.res # "TEE_SUCCESS"
        THEN Return(m2, m2.res, "TEE_CipherDoFinal")
        ELSE Return(m2, "TEE_SUCCESS", "done")

cmd_process(m, rq, env) ==
    IF rq.types # process_exp_param_types
    THEN Return(m, "TEE_ERROR_BAD_PARAMETERS", "param_types")
    ELSE ProcessCipher(m, rq, env)

\* cmd_prepare_key after the parameter check
PrepareKeySteps(m, rq, env) ==
    LET mode == IF rq.a0 # 0 THEN "TEE_MODE_DECRYPT" ELSE "TEE_MODE_ENCRYPT"
        m1 == FreeCryptoOp(m, env)
        m2 == TEE_AllocateOperation(m1, "TEE_ALG_AES_ECB_NOPAD", mode, 128,
                                    env.fail = "TEE_AllocateOperation",
                                    env.h, env.stale)
        m3 == TEE_AllocateTransientObject(
                  m2, env.fail = "TEE_AllocateTransientObject")
        m4 == TEE_PopulateTransientObject(
                  m3, env.fail = "TEE_PopulateTransientObject")
        m5 == TEE_SetOperationKey(m4, m4.crypto_op,
                                  env.fail = "TEE_SetOperationKey")
        m6 == TEE_FreeTransientObject(m5)
    IN  IF m1.dead THEN m1
        ELSE IF m2.res # "TEE_SUCCESS"
        THEN Return(m2, m2.res, "TEE_AllocateOperation")
        ELSE IF m3.res # "TEE_SUCCESS"
        THEN Return(m3, m3.res, "TEE_AllocateTransientObject")
        ELSE IF m4.res # "TEE_SUCCESS"
        THEN Return(m4, m4.res, "TEE_PopulateTransientObject")
        ELSE IF m5.res # "TEE_SUCCESS"
        THEN Return(m5, m5.res, "TEE_SetOperationKey")
        ELSE Return(m6, "TEE_SUCCESS", "done")

\* cmd_prepare_key with a fault: the parameter types are not checked.
cmd_prepare_key_unchecked(m, rq, env) == PrepareKeySteps(m, rq, env)

cmd_prepare_key(m, rq, env) ==
    IF rq.types # prepare_key_exp_param_types
    THEN Return(m, "TEE_ERROR_BAD_PARAMETERS", "param_types")
    ELSE PrepareKeySteps(m, rq, env)

TA_InvokeCommandEntryPoint(m, rq, env) ==
    CASE rq.cmd = "TA_AES_PERF_CMD_PREPARE_KEY" -> cmd_prepare_key(m, rq, env)
      [] rq.cmd = "TA_AES_PERF_CMD_PROCESS" -> cmd_process(m, rq, env)
      [] OTHER -> Return(m, "TEE_ERROR_BAD_PARAMETERS", "default")

TA_CloseSessionEntryPoint(m, env) ==
    Return(FreeCryptoOp(m, env), "TEE_SUCCESS", "done")

TA_OpenSessionEntryPoint(m) == Return(m, "TEE_SUCCESS", "done")

-----------------------------------------------------------------------------
NoOps == [x \in {} |-> NULL]

NoRequest == [cmd |-> "none", types |-> <<>>, a0 |-> 0, b0 |-> 0,
              a1 |-> "none", a2 |-> 0]

\* The record of a call that has not returned yet.
Pending == [rq |-> NoRequest, res |-> "pending", at |-> "entry",
            calls |-> <<>>, entry_op |-> NULL, entry_ops |-> NoOps,
            entry_objs |-> 0, entry_inst |-> "none"]

\* The outcomes the TEE may choose while a command runs.
Envs ==
    { e \in [fail : PrepareSteps \cup {"none"}, h : Handles, stale : BOOLEAN,
             ub : {"panic", "benign"}, cipherFails : BOOLEAN] :
        /\ e.stale => e.fail = "TEE_AllocateOperation"
        /\ e.ub = "panic" => Dangling(crypto_op, ops) }

\* What an entry point call leaves behind: the TA's memory (reclaimed by the
\* TEE when the TA panicked or the instance is destroyed) and the call's record.
Commit(m, rq, destroy) ==
    /\ crypto_op' = IF m.dead \/ destroy THEN NULL ELSE m.crypto_op
    /\ ops' = IF m.dead \/ destroy THEN NoOps ELSE m.ops
    /\ objs' = IF m.dead \/ destroy THEN 0 ELSE m.objs
    /\ streak' = IF rq.cmd = "TA_AES_PERF_CMD_PROCESS" /\ m.res = "TEE_SUCCESS"
                 THEN (IF streak < MaxStreak THEN streak + 1 ELSE streak)
                 ELSE 0
    /\ last' = [rq |-> rq, res |-> m.res, at |-> m.at, calls |-> m.calls,
                entry_op |-> crypto_op, entry_ops |-> ops,
                entry_objs |-> objs, entry_inst |-> inst]

\* The TA before its first session.
InitTA ==
    /\ crypto_op = NULL
    /\ ops = NoOps
    /\ objs = 0
    /\ inst = "none"
    /\ sess = "closed"
    /\ msg = NoRequest
    /\ streak = 0
    /\ last = Pending

\* The TA driven by any client; the host program is not started.
Init ==
    /\ InitTA
    /\ host = HostNotStarted
    /\ stats = ZeroStats
    /\ fed = <<>>

\* TEEC_OpenSession: the instance is created (crypto_op = NULL) unless one is
\* alive, then TA_OpenSessionEntryPoint runs.
OpenSession ==
    /\ sess = "closed"
    /\ sess' = "open"
    /\ inst' = "alive"
    /\ LET m0 == IF inst = "none" THEN Enter(NULL, NoOps, 0)
                 ELSE Enter(crypto_op, ops, objs)
       IN  Commit(TA_OpenSessionEntryPoint(m0),
                  [NoRequest EXCEPT !.cmd = "OpenSession"], FALSE)
    /\ UNCHANGED <<msg, hvars>>

\* TEEC_InvokeCommand, the call: the command crosses to the TA.
Send(rq) ==
    /\ sess = "open"
    /\ msg = NoRequest
    /\ msg' = rq
    /\ last' = Pending
    /\ UNCHANGED <<crypto_op, ops, objs, inst, sess, streak, hvars>>

\* host prepare_key(), and the same command with other parameter shapes
SendPrepareKey ==
    \E types \in ParamShapes, a0 \in Directions, b0 \in KeySizes, a1 \in Modes :
        Send([cmd |-> "TA_AES_PERF_CMD_PREPARE_KEY", types |-> types,
              a0 |-> a0, b0 |-> b0, a1 |-> a1, a2 |-> 0])

\* host run_test_once(), and the same command with other parameter shapes
SendProcess ==
    \E types \in ParamShapes, a2 \in 1..MaxLoops :
        Send([NoRequest EXCEPT !.cmd = "TA_AES_PERF_CMD_PROCESS",
                               !.types = types, !.a2 = a2])

\* a command id the TA does not know
SendOther ==
    \E types \in ParamShapes :
        Send([NoRequest EXCEPT !.cmd = "unknown", !.types = types])

\* TEEC_InvokeCommand, the TA's side: TA_InvokeCommandEntryPoint runs and the
\* reply returns.  A dead instance answers TEE_ERROR_TARGET_DEAD without
\* entering the TA.
Handle ==
    \E env \in Envs :
        /\ msg # NoRequest
        /\ LET m0 == Enter(crypto_op, ops, objs)
               m  == IF inst = "dead"
                     THEN Return(m0, "TEE_ERROR_TARGET_DEAD", "framework")
                     ELSE TA_InvokeCommandEntryPoint(m0, msg, env)
           IN  /\ Commit(m, msg, FALSE)
               /\ inst' = IF m.dead THEN "dead" ELSE inst
        /\ msg' = NoRequest
        /\ UNCHANGED <<sess, hvars>>

\* TEEC_CloseSession: TA_CloseSessionEntryPoint runs on a live instance; the
\* instance is then destroyed (TA_DestroyEntryPoint) unless it is kept alive.
CloseSession ==
    \E keep \in BOOLEAN, env \in Envs :
        /\ sess = "open"
        /\ msg = NoRequest
        /\ sess' = "closed"
        /\ LET m0 == Enter(crypto_op, ops, objs)
               m  == IF inst = "dead"
                     THEN Return(m0, "TEE_SUCCESS", "framework")
                     ELSE TA_CloseSessionEntryPoint(m0, env)
               destroy == inst = "dead" \/ m.dead \/ ~keep
           IN  /\ Commit(m, [NoRequest EXCEPT !.cmd = "CloseSession"], destroy)
               /\ inst' = IF destroy THEN "none" ELSE "alive"
        /\ UNCHANGED <<msg, hvars>>

Next == OpenSession \/ SendPrepareKey \/ SendProcess \/ SendOther \/ Handle
        \/ CloseSession

Spec == Init /\ [][Next]_vars

TypeOK ==
    /\ crypto_op \in Handles \cup {NULL}
    /\ DOMAIN ops \subseteq Handles
    /\ objs \in 0..MaxObjects
    /\ inst \in {"none", "alive", "dead"}
    /\ sess \in {"closed", "open"}
    /\ streak \in 0..MaxStreak

-----------------------------------------------------------------------------
(* The accumulator on its own: any sequence of at most MaxSamples samples  *)
(* is fed to update_stats, starting from the zero-initialised structure.   *)
(* fed is the sequence fed so far.                                          *)

InitStats ==
    /\ InitTA
    /\ host = HostNotStarted
    /\ stats = ZeroStats
    /\ fed = <<>>

\* update_stats(&stats, t)
Feed ==
    \E t \in Samples :
        /\ Len(fed) < MaxSamples
        /\ stats' = update_stats(stats, t)
        /\ fed' = Append(fed, t)
        /\ UNCHANGED <<tavars, host>>

NextStats == Feed

SpecStats == InitStats /\ [][NextStats]_vars

-----------------------------------------------------------------------------
(* The host program's run: main after the command line is parsed.  The     *)
(* result of each TEE client call is the environment's choice.             *)

\* main with -n n, -l l, -r, -i; run_test's stats = {0, }
InitHost ==
    /\ InitTA
    /\ stats = ZeroStats
    /\ fed = <<>>
    /\ \E n \in 0..MaxN, l \in 1..MaxLoops, random_in \in BOOLEAN,
          in_place \in BOOLEAN :
            host = HostStart(n, l, random_in, in_place)

\* main: open_ta()
MainOpenTA ==
    \E res_ctx \in TEEC_Results, res_sess \in TEEC_Results :
        /\ host.pc = "open_ta"
        /\ LET h == open_ta(host, res_ctx, res_sess)
           IN  host' = IF Exited(h) THEN h ELSE [h EXCEPT !.pc = "prepare_key"]
        /\ UNCHANGED <<tavars, stats, fed>>

\* main: prepare_key()
MainPrepareKey ==
    \E res \in TEEC_Results :
        /\ host.pc = "prepare_key"
        /\ LET h == prepare_key(host, res)
           IN  host' = IF Exited(h) THEN h ELSE [h EXCEPT !.pc = "run_test"]
        /\ UNCHANGED <<tavars, stats, fed>>

\* run_test, up to the loop
RunTestSetup ==
    \E res_in \in TEEC_Results, res_out \in TEEC_Results :
        /\ host.pc = "run_test"
        /\ host' = run_test_setup(host, res_in, res_out)
        /\ UNCHANGED <<tavars, stats, fed>>

\* while (n-- > 0), true: run_test_once up to TEEC_InvokeCommand
RunTestIterate ==
    /\ host.pc = "loop"
    /\ host.n > 0
    /\ host' = run_test_once_call([host EXCEPT !.n = @ - 1])
    /\ UNCHANGED <<tavars, stats, fed>>

\* TEEC_InvokeCommand returns: check_res, update_stats, n % (n0/10)
RunTestOnceReturn ==
    \E res \in TEEC_Results, t \in Durations, div0 \in {"trap", "go_on"} :
        /\ host.pc = "invoke"
        /\ LET h == run_test_once_return(host, res)
           IN  IF Exited(h)
               THEN host' = h /\ stats' = stats
               ELSE host' = progress_mark(h, div0)
                    /\ stats' = update_stats(stats, t)
        /\ UNCHANGED <<tavars, fed>>

\* while (n-- > 0), false: the summary, free_shm, return 0.  n wraps to
\* UINT_MAX here and is not read again; the model leaves it at 0.
RunTestFinish ==
    /\ host.pc = "loop"
    /\ host.n = 0
    /\ host' = run_test_end(host)
    /\ UNCHANGED <<tavars, stats, fed>>

NextHost == MainOpenTA \/ MainPrepareKey \/ RunTestSetup \/ RunTestIterate
            \/ RunTestOnceReturn \/ RunTestFinish

SpecHost == InitHost /\ [][NextHost]_vars

-----------------------------------------------------------------------------
(* Properties.  They read the record of the last call: the command, the    *)
(* state the TA was entered in, the reply and the TEE API calls it made.   *)

PREPARE_KEY == "TA_AES_PERF_CMD_PREPARE_KEY"
PROCESS == "TA_AES_PERF_CMD_PROCESS"

\* The TA has answered command cmd (the instance was alive when it arrived).
Answered(cmd) ==
    last.rq.cmd = cmd /\ last.res # "pending" /\ last.entry_inst = "alive"

\* Positions of the calls to TEE API function f in the last call.
CallsTo(f) == {i \in DOMAIN last.calls : last.calls[i][1] = f}

\* The TA was entered holding an allocated operation with a key (KeyReady).
EntryKeyReady ==
    /\ last.entry_op \in DOMAIN last.entry_ops
    /\ last.entry_ops[last.entry_op].keySet

ClientPrepareKeyShape == TEEC_InvokeCommand_types(prepare_key_paramTypes)
ClientProcessShape == TEEC_InvokeCommand_types(run_test_paramTypes)

\* The cipher algorithm a requested mode stands for.
AlgorithmOf(mode) ==
    CASE mode = "TA_AES_ECB" -> "TEE_ALG_AES_ECB_NOPAD"
      [] mode = "TA_AES_CBC" -> "TEE_ALG_AES_CBC_NOPAD"
      [] mode = "TA_AES_CTR" -> "TEE_ALG_AES_CTR"
      [] mode = "TA_AES_XTS" -> "TEE_ALG_AES_XTS"

\* C1: a Process command that arrives while crypto_op is NULL returns an error
\* and makes no cipher call (TEE_CipherInit, TEE_CipherDoFinal).
C1_ProcessWithoutContextRejected ==
    (Answered(PROCESS) /\ last.entry_op = NULL) =>
        /\ last.res # "TEE_SUCCESS"
        /\ CallsTo("TEE_CipherInit") = {}
        /\ CallsTo("TEE_CipherDoFinal") = {}

\* C2: the PrepareKey handler accepts a command exactly when its parameter
\* types are the ones the client's prepare_key() sends (two input values, two
\* empty slots).
C2_PrepareKeySignatureAgrees ==
    Answered(PREPARE_KEY) =>
        ((last.at # "param_types") <=> (last.rq.types = ClientPrepareKeyShape))

\* C3: the Process handler accepts a command exactly when its parameter types
\* are the ones the client's run_test() builds (two buffers, one input value,
\* one empty slot).
C3_ProcessSignatureAgrees ==
    Answered(PROCESS) =>
        ((last.at # "param_types") <=> (last.rq.types = ClientProcessShape))

\* C4: after a successful PrepareKey(direction, key_size, mode) the operation
\* crypto_op designates has the requested mode's algorithm, the requested key
\* size and the requested direction.
C4_ContextBoundToRequestedTuple ==
    (Answered(PREPARE_KEY) /\ last.res = "TEE_SUCCESS") =>
        /\ crypto_op \in DOMAIN ops
        /\ ops[crypto_op].algorithm = AlgorithmOf(last.rq.a1)
        /\ ops[crypto_op].maxKeySize = last.rq.b0
        /\ ops[crypto_op].mode = IF last.rq.a0 # 0 THEN "TEE_MODE_DECRYPT"
                                 ELSE "TEE_MODE_ENCRYPT"

\* C5: when a well-formed PrepareKey fails at one of its steps, the TA is left
\* with no operation context: crypto_op is NULL and no operation is allocated.
C5_FailedPrepareKeyLeavesNoContext ==
    (Answered(PREPARE_KEY) /\ last.at \in PrepareSteps) =>
        (crypto_op = NULL /\ DOMAIN ops = {})

C7_AtMostOneContext ==
    /\ Cardinality(DOMAIN ops) <= 1
    /\ DOMAIN ops \subseteq {crypto_op}
    /\ (/\ Answered(PREPARE_KEY)
        /\ last.res = "TEE_SUCCESS"
        /\ last.entry_op \in DOMAIN last.entry_ops) =>
            /\ Len(last.calls) >= 2
            /\ last.calls[1] = <<"TEE_FreeOperation", last.entry_op>>
            /\ last.calls[2][1] = "TEE_AllocateOperation"
            /\ CallsTo("TEE_FreeOperation") = {1}

\* C7 witness: a successful PrepareKey superseded a keyed operation.
C7_Witness ==
    /\ Answered(PREPARE_KEY)
    /\ last.res = "TEE_SUCCESS"
    /\ EntryKeyReady
    /\ crypto_op \in DOMAIN ops
    /\ ops[crypto_op].mode # last.entry_ops[last.entry_op].mode

\* C8: a Process command with inner loop count L (as run_test() builds it, or
\* with the parameter types cmd_process expects), arriving in KeyReady, runs the
\* cipher step exactly L times before it replies.
C8_InnerLoopCountRepetitions ==
    (/\ Answered(PROCESS)
     /\ EntryKeyReady
     /\ last.rq.types \in {ClientProcessShape, process_exp_param_types}) =>
        Cardinality(CallsTo("TEE_CipherDoFinal")) = last.rq.a2

C10_CloseFreesExactlyTheContext ==
    (last.rq.cmd = "CloseSession" /\ last.entry_inst = "alive") =>
        /\ DOMAIN ops = {}
        /\ (last.entry_op \in DOMAIN last.entry_ops =>
                last.calls = << <<"TEE_FreeOperation", last.entry_op>> >>)
        /\ (DOMAIN last.entry_ops = {} => last.calls = <<>>)

\* C19: while the TA instance lives, crypto_op is NULL or designates an
\* allocated operation, and no entry point hands the TEE (TEE_FreeOperation,
\* TEE_CipherInit, TEE_CipherDoFinal) a handle that was not allocated when the
\* entry point was entered.
C19_HandleNullOrAllocated ==
    /\ inst = "alive" => ~Dangling(crypto_op, ops)
    /\ last.entry_inst = "alive" =>
        \A i \in CallsTo("TEE_FreeOperation") \cup CallsTo("TEE_CipherInit") :
            last.calls[i][2] # NULL => last.calls[i][2] \in DOMAIN last.entry_ops

\* C20: when a PrepareKey command returns, as many transient objects are
\* allocated as when it arrived: the key object it allocated has been freed.
C20_TransientKeyFreed ==
    (Answered(PREPARE_KEY) /\ inst = "alive") => objs = last.entry_objs

-----------------------------------------------------------------------------
(* Properties of the accumulator (SpecStats).                               *)

RECURSIVE SumTo(_, _)
SumTo(xs, k) == IF k = 0 THEN 0 ELSE xs[k] + SumTo(xs, k - 1)

\* The arithmetic mean of xs.
MeanOf(xs) == Frac(SumTo(xs, Len(xs)), Len(xs))

RECURSIVE SumSqTo(_, _, _)
SumSqTo(xs, mean, k) ==
    IF k = 0 THEN FromInt(0)
    ELSE LET d == FSub(FromInt(xs[k]), mean)
         IN  FAdd(FMul(d, d), SumSqTo(xs, mean, k - 1))

\* The sum of (xi - mean)^2 over xs.
SumSqOf(xs) == SumSqTo(xs, MeanOf(xs), Len(xs))

SmallestOf(xs) == CHOOSE x \in {xs[i] : i \in DOMAIN xs} :
                      \A i \in DOMAIN xs : x <= xs[i]
LargestOf(xs) == CHOOSE x \in {xs[i] : i \in DOMAIN xs} :
                     \A i \in DOMAIN xs : x >= xs[i]

\* C14: stddev() is not-a-number exactly when fewer than 2 samples were fed
\* (n = 0 or n = 1), and a number from 2 samples on.
C14_StddevNaNIffBelowTwo ==
    /\ stats.n = Len(fed)
    /\ stddev(stats).nan <=> Len(fed) < 2

C14_Witness == Len(fed) = 2 /\ ~stddev(stats).nan

\* C15: after a non-empty sequence of samples min <= mean <= max, min is the
\* smallest and max the largest sample fed.
C15_MinMeanMax ==
    Len(fed) >= 1 =>
        /\ stats.min = FromInt(SmallestOf(fed))
        /\ stats.max = FromInt(LargestOf(fed))
        /\ FLeq(stats.min, stats.m)
        /\ FLeq(stats.m, stats.max)

C15_Witness ==
    /\ Len(fed) = 2
    /\ fed[1] = 0
    /\ fed[2] > 0
    /\ stats.min = FromInt(0)
    /\ FLess(stats.m, stats.max)

\* C17: the running mean is the arithmetic mean of the samples fed, M2 is the
\* sum of their squared distances to it, stddev() for n >= 2 is the square
\* root of M2 / n, and 10, 20, 30 give mean 20 and M2 200.
C17_WelfordMeanAndM2 ==
    Len(fed) >= 1 =>
        /\ stats.m = MeanOf(fed)
        /\ stats.M2 = SumSqOf(fed)
        /\ Len(fed) >= 2 =>
               stddev(stats) = Sqrt(Frac(SumSqOf(fed)[1],
                                         SumSqOf(fed)[2] * Len(fed)))
        /\ fed = <<10, 20, 30>> =>
               stats.m = FromInt(20) /\ stats.M2 = FromInt(200)

C17_Witness ==
    /\ fed = <<10, 20, 30>>
    /\ stats.m = FromInt(20)
    /\ stddev(stats) = Sqrt(Frac(200, 3))

-----------------------------------------------------------------------------
(* Properties of the host program's run (SpecHost).                         *)

Buffers == {"in_shm", "out_shm"}

\* C11: a buffer that was allocated is released exactly once by the end of a
\* run, and a buffer that was not allocated is never released.
C11_ReleaseOncePerAllocation ==
    \A b \in Buffers :
        /\ host[b].releases <= 1
        /\ ~host[b].allocated => host[b].releases = 0
        /\ (host.pc = "done" /\ host[b].allocated) => host[b].releases = 1

\* C12: when the run has ended, on any path, every buffer that was allocated
\* has been released.
C12_ReleasedOnEveryExit ==
    Exited(host) =>
        \A b \in Buffers : host[b].allocated => host[b].releases >= 1

\* C13: a run with outer_count >= 1 whose commands all succeed ends with the
\* summary printed after outer_count Process commands and outer_count samples.
C13_OuterCountIterations ==
    (Exited(host) /\ host.failed = "none" /\ host.n0 >= 1) =>
        /\ host.printed
        /\ host.process = host.n0
        /\ stats.n = host.n0

\* C16: after a failed call the client makes no further call, takes no sample
\* for the failed command, prints no summary and exits with status 1.
C16_FailureIsFatal ==
    host.failed # "none" =>
        /\ host.pc = "exit"
        /\ host.status = 1
        /\ host.issued = host.failed_at
        /\ ~host.printed
        /\ stats.n = IF host.failed = PROCESS THEN host.process - 1
                     ELSE host.process

C16_Witness ==
    /\ host.failed = PROCESS
    /\ host.process >= 2
    /\ stats.n = host.process - 1
    /\ host.pc = "exit"

\* C18: in deterministic mode the input buffer holds zeros whenever a Process
\* command is issued, in place or not.
C18_ZeroInputAtEveryProcess ==
    (host.pc = "invoke" /\ ~host.random_in) => host.in_shm.content = "zero"

\* C18, amended: in deterministic mode the input buffer holds zeros at every
\* Process command when not in place; in place it holds zeros at the first
\* Process command and the previous command's output at each later one.
C18_ZeroInputUnlessOverwrittenInPlace ==
    (host.pc = "invoke" /\ ~host.random_in) =>
        host.in_shm.content =
            IF host.in_place /\ host.process >= 2 THEN Cipher("zero")
            ELSE "zero"

C18_Witness ==
    /\ host.pc = "invoke"
    /\ ~host.random_in
    /\ host.in_place
    /\ host.process >= 2
    /\ host.in_shm.content = "ciphertext"

====
